---- MODULE Spec2Model ----
(***************************************************************************)
(* Ingestion / upsert reconciliation of the Shopify data-ingestion backend *)
(* (src/main.py, src/models.py, src/shopify.py).                           *)
(*                                                                         *)
(* The committed database is `db`; an ingestion call works in its own      *)
(* SQLAlchemy session `sess` (rows written inside the open transaction and *)
(* objects staged with db.add but not flushed yet).  A call is a sequence  *)
(* of steps: tenant lookup, fetch, one step per record of the payload, one *)
(* step per nested record, commit.                                         *)
(***************************************************************************)
EXTENDS Integers, Sequences, FiniteSets, TLC

VARIABLES
    autoflush,  \* session configuration: does a query flush staged objects first
    db,         \* committed tables
    seq,        \* per-table id sequence (never rolled back)
    sess,       \* the open session of the call in flight
    pc,         \* position of the call in flight
    call,       \* locals of the call in flight, and its response once done
    ncalls,     \* number of ingestion calls started
    pre,        \* history: committed tables when the call in flight started
    prev,       \* history: kind, tenant, payload and status of the call before
    rep,        \* history: the call in flight repeats a successful call
    other       \* a second call, started and not finished, that is not running now

vars == <<autoflush, db, seq, sess, pc, call, ncalls, pre, prev, rep, other>>

----------------------------------------------------------------------------
(* Bounds of the model *)

\* ingestion calls in one behaviour
MaxCalls == 2
\* top-level records in one payload
MaxRecs == 2
\* nested records (variants, line items) under one top-level record
MaxNested == 2
\* total number of records, top-level and nested, in one payload
MaxWeight == 2

----------------------------------------------------------------------------
(* Values *)

NULL == 0

Tables == {"tenants", "customers", "products", "variants", "orders", "line_items"}

Kinds == {"customers", "products", "orders"}

\* external (Shopify) ids, one namespace per entity type
ExtIds == {1, 2}

\* money as it comes in a payload: a decimal string, here in thousandths
Prices == {19990, 5005}

Quantities == {1, 2}

\* mutant of ToDecimal2: a column of scale 1, DECIMAL(10, 1)
ToDecimal1(m) == ((m + 50) \div 100) * 10

\* DECIMAL(10, 2): the store keeps two fractional digits, rounding half up
ToDecimal2(m) == (m + 5) \div 10

\* a stored money value as it is read back, in thousandths
FromDecimal2(d) == d * 10

EmptyTables ==
    [tenants |-> {}, customers |-> {}, products |-> {},
     variants |-> {}, orders |-> {}, line_items |-> {}]

ZeroSeq == [t \in Tables |-> 0]

EmptySession == [rows |-> EmptyTables, pending |-> <<>>]

\* the session factory (database.py): a staged row is written when a flush is
\* forced or at commit, never by a query
SessionAutoflush == {FALSE}

SeqsUpTo(S, n) == UNION {[1..k -> S] : k \in 0..n}

----------------------------------------------------------------------------
(* The session: what a query sees, staging, flush *)

\* rows of table t as a query of the session sees them: the committed rows,
\* overlaid with the rows the open transaction wrote
ViewOf(tables, rows, t) ==
    rows[t] \cup {r \in tables[t] : \A w \in rows[t] : w.id # r.id}

\* mutant of Violates: the external ids of customers and products are unique
\* per tenant only
ViolatesPerTenant(t, row, view) ==
    CASE t = "tenants"   -> \E r \in view : r.shop_name = row.shop_name
      [] t = "customers" -> \E r \in view :
                               /\ r.shopify_customer_id = row.shopify_customer_id
                               /\ r.tenant_id = row.tenant_id
      [] t = "products"  -> \E r \in view :
                               /\ r.shopify_product_id = row.shopify_product_id
                               /\ r.tenant_id = row.tenant_id
      [] t = "variants"  -> \E r \in view : r.shopify_variant_id = row.shopify_variant_id
      [] t = "orders"    -> \E r \in view : r.shopify_order_id = row.shopify_order_id
      [] OTHER           -> FALSE

\* unique=True columns of models.py; order_line_items has none
Violates(t, row, view) ==
    CASE t = "tenants"   -> \E r \in view : r.shop_name = row.shop_name
      [] t = "customers" -> \E r \in view : r.shopify_customer_id = row.shopify_customer_id
      [] t = "products"  -> \E r \in view : r.shopify_product_id = row.shopify_product_id
      [] t = "variants"  -> \E r \in view : r.shopify_variant_id = row.shopify_variant_id
      [] t = "orders"    -> \E r \in view : r.shopify_order_id = row.shopify_order_id
      [] OTHER           -> FALSE

\* INSERT the staged objects in the order they were added; each draws the
\* next id of its table; a uniqueness violation raises IntegrityError
RECURSIVE FlushPending(_, _, _, _)
FlushPending(tables, rows, pending, sq) ==
    IF pending = <<>>
    THEN [ok |-> TRUE, rows |-> rows, seq |-> sq]
    ELSE LET p   == Head(pending)
             t   == p.table
             id  == sq[t] + 1
             sq2 == [sq EXCEPT ![t] = id]
         IN  IF Violates(t, p.row, ViewOf(tables, rows, t))
             THEN [ok |-> FALSE, rows |-> rows, seq |-> sq2]
             ELSE FlushPending(tables,
                               [rows EXCEPT ![t] = @ \cup {[p.row EXCEPT !.id = id]}],
                               Tail(pending), sq2)

\* db.flush()
Flush(tables, s, sq) ==
    LET f == FlushPending(tables, s.rows, s.pending, sq)
    IN  [ok |-> f.ok, sess |-> [rows |-> f.rows, pending |-> <<>>], seq |-> f.seq]

\* what a db.query(...) does before it runs: flush when the session autoflushes
QueryFlush(af, tables, s, sq) ==
    IF af THEN Flush(tables, s, sq) ELSE [ok |-> TRUE, sess |-> s, seq |-> sq]

\* db.add(obj)
Add(s, t, row) == [s EXCEPT !.pending = Append(@, [table |-> t, row |-> row])]

\* an attribute assignment on a loaded object: the row as the transaction writes it
Write(s, t, row) ==
    [s EXCEPT !.rows[t] = {w \in @ : w.id # row.id} \cup {row}]

----------------------------------------------------------------------------
(* Payloads the adapter can return *)

CustomerRecs ==
    [id : ExtIds, first_name : {"Ann", "Bob"}, last_name : {"Lee"},
     email : {"a@shop.test"}, phone : {"555"}]

VariantRecs ==
    [id : ExtIds, title : {"Default"}, price : Prices, sku : {"SKU"},
     weight : {1500}, weight_unit : {"kg"}]

ProductRecs ==
    [id : ExtIds, title : {"Mug", "Cup"}, vendor : {"Acme"},
     product_type : {"Kitchen"}, variants : SeqsUpTo(VariantRecs, MaxNested)]

LineItemRecs == [variant_id : ExtIds, quantity : Quantities, price : {19990}]

\* customer: the external id in the embedded customer sub-record, NULL when the
\* order record embeds none
OrderRecs ==
    [id : ExtIds, customer : ExtIds \cup {NULL}, total_price : Prices,
     currency : {"USD"}, line_items : SeqsUpTo(LineItemRecs, MaxNested)]

RECURSIVE Weight(_)
Weight(recs) ==
    IF recs = <<>> THEN 0
    ELSE LET r == Head(recs)
             nested == IF "variants" \in DOMAIN r THEN Len(r.variants)
                       ELSE IF "line_items" \in DOMAIN r THEN Len(r.line_items)
                       ELSE 0
         IN  1 + nested + Weight(Tail(recs))

\* the lists of at most n records whose weights add up to at most w
RECURSIVE ListsWithin(_, _, _)
ListsWithin(recs, n, w) ==
    IF n = 0 THEN {<<>>}
    ELSE {<<>>} \cup
         UNION {{<<r>> \o p : p \in ListsWithin(recs, n - 1, w - Weight(<<r>>))} :
                   r \in {x \in recs : Weight(<<x>>) <= w}}

\* the record lists of a resource kind, up to the bounds
RecordLists(recs) == ListsWithin(recs, MaxRecs, MaxWeight)

\* response.json(): a mapping that holds the resource key with a record list,
\* or does not hold it
Mappings(lists) ==
    {[has_key |-> TRUE, records |-> p] : p \in lists}
        \cup {[has_key |-> FALSE, records |-> <<>>]}

\* what the adapter can return for each resource kind
Payloads ==
    [customers |-> Mappings(RecordLists(CustomerRecs)),
     products  |-> Mappings(RecordLists(ProductRecs)),
     orders    |-> Mappings(RecordLists({r \in OrderRecs : r.customer \in {NULL, 1}}))]

\* requests.get fails, raise_for_status raises, response.json() raises
FetchFailures == {"network", "http_status", "malformed_body"}

\* data.get(kind, [])
GetRecords(data) == IF data.has_key THEN data.records ELSE <<>>

----------------------------------------------------------------------------
(* Reconciliation: one record of a payload.  Each operator gives the set of *)
(* outcomes [ok, sess, seq, link]: ok = FALSE when a flush raised           *)
(* IntegrityError; a query that matches several rows returns any of them    *)
(* (first() without ORDER BY).                                              *)

Raised(q) == [ok |-> FALSE, sess |-> q.sess, seq |-> q.seq, link |-> NULL]

Done(s, sq, link) == [ok |-> TRUE, sess |-> s, seq |-> sq, link |-> link]

\* main.py 60-85: one customer record
ReconcileCustomer(af, tables, s, sq, tenant_id, rec) ==
    LET q == QueryFlush(af, tables, s, sq)
        found == {r \in ViewOf(tables, q.sess.rows, "customers") :
                     /\ r.shopify_customer_id = rec.id
                     /\ r.tenant_id = tenant_id}
    IN  IF ~q.ok THEN {Raised(q)}
        ELSE IF found # {}
        THEN {Done(Write(q.sess, "customers",
                         [r EXCEPT !.first_name = rec.first_name,
                                   !.last_name = rec.last_name,
                                   !.email = rec.email,
                                   !.phone = rec.phone]),
                   q.seq, r.id) : r \in found}
        ELSE {Done(Add(q.sess, "customers",
                       [id |-> NULL, tenant_id |-> tenant_id,
                        shopify_customer_id |-> rec.id,
                        first_name |-> rec.first_name, last_name |-> rec.last_name,
                        email |-> rec.email, phone |-> rec.phone]),
                   q.seq, NULL)}

\* main.py 110-133: one product record, up to product_id_to_link
ReconcileProduct(af, tables, s, sq, tenant_id, rec) ==
    LET q == QueryFlush(af, tables, s, sq)
        found == {r \in ViewOf(tables, q.sess.rows, "products") :
                     /\ r.shopify_product_id = rec.id
                     /\ r.tenant_id = tenant_id}
        staged == Add(q.sess, "products",
                      [id |-> NULL, tenant_id |-> tenant_id,
                       shopify_product_id |-> rec.id, title |-> rec.title,
                       vendor |-> rec.vendor, product_type |-> rec.product_type])
        f == Flush(tables, staged, q.seq)
    IN  IF ~q.ok THEN {Raised(q)}
        ELSE IF found # {}
        THEN {Done(Write(q.sess, "products",
                         [r EXCEPT !.title = rec.title,
                                   !.vendor = rec.vendor,
                                   !.product_type = rec.product_type]),
                   q.seq, r.id) : r \in found}
        ELSE IF ~f.ok THEN {Raised(f)}
        ELSE {Done(f.sess, f.seq, f.seq["products"])}

\* mutant of ReconcileVariant: the update of an existing variant links it to
\* the product of the record being ingested
ReconcileVariantRelinks(af, tables, s, sq, link, rec) ==
    LET q == QueryFlush(af, tables, s, sq)
        found == {r \in ViewOf(tables, q.sess.rows, "variants") :
                     r.shopify_variant_id = rec.id}
    IN  IF ~q.ok THEN {Raised(q)}
        ELSE IF found # {}
        THEN {Done(Write(q.sess, "variants",
                         [r EXCEPT !.product_id = link,
                                   !.title = rec.title,
                                   !.price = ToDecimal2(rec.price),
                                   !.sku = rec.sku,
                                   !.weight = ToDecimal2(rec.weight),
                                   !.weight_unit = rec.weight_unit]),
                   q.seq, link) : r \in found}
        ELSE {Done(Add(q.sess, "variants",
                       [id |-> NULL, product_id |-> link,
                        shopify_variant_id |-> rec.id, title |-> rec.title,
                        price |-> ToDecimal2(rec.price), sku |-> rec.sku,
                        weight |-> ToDecimal2(rec.weight),
                        weight_unit |-> rec.weight_unit]),
                   q.seq, link)}

\* main.py 138-159: one variant record of the product linked as `link`
ReconcileVariant(af, tables, s, sq, link, rec) ==
    LET q == QueryFlush(af, tables, s, sq)
        found == {r \in ViewOf(tables, q.sess.rows, "variants") :
                     r.shopify_variant_id = rec.id}
    IN  IF ~q.ok THEN {Raised(q)}
        ELSE IF found # {}
        THEN {Done(Write(q.sess, "variants",
                         [r EXCEPT !.title = rec.title,
                                   !.price = ToDecimal2(rec.price),
                                   !.sku = rec.sku,
                                   !.weight = ToDecimal2(rec.weight),
                                   !.weight_unit = rec.weight_unit]),
                   q.seq, link) : r \in found}
        ELSE {Done(Add(q.sess, "variants",
                       [id |-> NULL, product_id |-> link,
                        shopify_variant_id |-> rec.id, title |-> rec.title,
                        price |-> ToDecimal2(rec.price), sku |-> rec.sku,
                        weight |-> ToDecimal2(rec.weight),
                        weight_unit |-> rec.weight_unit]),
                   q.seq, link)}

\* mutant of ResolveCustomer: the customer is looked up by external id alone,
\* whichever tenant owns it
ResolveCustomerAnyTenant(tables, rows, tenant_id, rec) ==
    LET found == {r \in ViewOf(tables, rows, "customers") :
                     r.shopify_customer_id = rec.customer}
    IN  IF rec.customer = NULL \/ found = {} THEN {NULL}
        ELSE {r.id : r \in found}

\* main.py 187-196: the internal ids the embedded customer resolves to
ResolveCustomer(tables, rows, tenant_id, rec) ==
    LET found == {r \in ViewOf(tables, rows, "customers") :
                     /\ r.shopify_customer_id = rec.customer
                     /\ r.tenant_id = tenant_id}
    IN  IF rec.customer = NULL \/ found = {} THEN {NULL}
        ELSE {r.id : r \in found}

\* mutant of ReconcileOrder: the update of an existing order leaves its
\* customer link as it was
ReconcileOrderKeepsLink(af, tables, s, sq, tenant_id, rec) ==
    LET q == IF rec.customer # NULL THEN QueryFlush(af, tables, s, sq)
             ELSE [ok |-> TRUE, sess |-> s, seq |-> sq]
        q2 == IF q.ok THEN QueryFlush(af, tables, q.sess, q.seq) ELSE q
        found == {r \in ViewOf(tables, q2.sess.rows, "orders") :
                     /\ r.shopify_order_id = rec.id
                     /\ r.tenant_id = tenant_id}
    IN  IF ~q2.ok THEN {Raised(q2)}
        ELSE UNION {
            IF found # {}
            THEN {Done(Write(q2.sess, "orders",
                             [r EXCEPT !.total_price = ToDecimal2(rec.total_price),
                                       !.currency = rec.currency]),
                       q2.seq, r.id) : r \in found}
            ELSE LET staged == Add(q2.sess, "orders",
                                   [id |-> NULL, tenant_id |-> tenant_id,
                                    customer_id |-> cid,
                                    shopify_order_id |-> rec.id,
                                    total_price |-> ToDecimal2(rec.total_price),
                                    currency |-> rec.currency])
                     f == Flush(tables, staged, q2.seq)
                 IN  IF ~f.ok THEN {Raised(f)}
                     ELSE {Done(f.sess, f.seq, f.seq["orders"])}
            : cid \in ResolveCustomer(tables, q.sess.rows, tenant_id, rec)}

\* main.py 184-219: one order record, up to order_id_to_link
ReconcileOrder(af, tables, s, sq, tenant_id, rec) ==
    LET q == IF rec.customer # NULL THEN QueryFlush(af, tables, s, sq)
             ELSE [ok |-> TRUE, sess |-> s, seq |-> sq]
        q2 == IF q.ok THEN QueryFlush(af, tables, q.sess, q.seq) ELSE q
        found == {r \in ViewOf(tables, q2.sess.rows, "orders") :
                     /\ r.shopify_order_id = rec.id
                     /\ r.tenant_id = tenant_id}
    IN  IF ~q2.ok THEN {Raised(q2)}
        ELSE UNION {
            IF found # {}
            THEN {Done(Write(q2.sess, "orders",
                             [r EXCEPT !.total_price = ToDecimal2(rec.total_price),
                                       !.currency = rec.currency,
                                       !.customer_id = cid]),
                       q2.seq, r.id) : r \in found}
            ELSE LET staged == Add(q2.sess, "orders",
                                   [id |-> NULL, tenant_id |-> tenant_id,
                                    customer_id |-> cid,
                                    shopify_order_id |-> rec.id,
                                    total_price |-> ToDecimal2(rec.total_price),
                                    currency |-> rec.currency])
                     f == Flush(tables, staged, q2.seq)
                 IN  IF ~f.ok THEN {Raised(f)}
                     ELSE {Done(f.sess, f.seq, f.seq["orders"])}
            : cid \in ResolveCustomer(tables, q.sess.rows, tenant_id, rec)}

\* mutant of ReconcileLineItem: a resolved line item is always staged as a new
\* row, the existing row of the pair is never looked up
ReconcileLineItemInsertOnly(af, tables, s, sq, link, rec) ==
    LET q == QueryFlush(af, tables, s, sq)
        variants == {v \in ViewOf(tables, q.sess.rows, "variants") :
                        v.shopify_variant_id = rec.variant_id}
    IN  IF ~q.ok THEN {Raised(q)}
        ELSE IF variants = {} THEN {Done(q.sess, q.seq, link)}
        ELSE {Done(Add(q.sess, "line_items",
                       [id |-> NULL, order_id |-> link, variant_id |-> v.id,
                        quantity |-> rec.quantity,
                        price |-> ToDecimal2(rec.price)]),
                   q.seq, link) : v \in variants}

\* mutant of ReconcileLineItem: a line item whose variant is not found raises
\* instead of being skipped
ReconcileLineItemStrict(af, tables, s, sq, link, rec) ==
    LET q == QueryFlush(af, tables, s, sq)
        variants == {v \in ViewOf(tables, q.sess.rows, "variants") :
                        v.shopify_variant_id = rec.variant_id}
        items(v) == {l \in ViewOf(tables, q.sess.rows, "line_items") :
                        /\ l.order_id = link
                        /\ l.variant_id = v.id}
    IN  IF ~q.ok \/ variants = {} THEN {Raised(q)}
        ELSE UNION {
            IF items(v) # {}
            THEN {Done(Write(q.sess, "line_items",
                             [l EXCEPT !.quantity = rec.quantity,
                                       !.price = ToDecimal2(rec.price)]),
                       q.seq, link) : l \in items(v)}
            ELSE {Done(Add(q.sess, "line_items",
                           [id |-> NULL, order_id |-> link, variant_id |-> v.id,
                            quantity |-> rec.quantity,
                            price |-> ToDecimal2(rec.price)]),
                       q.seq, link)}
            : v \in variants}

\* mutant of ReconcileLineItem: a line item whose variant is not found stages
\* a placeholder variant for it
ReconcileLineItemAddsVariant(af, tables, s, sq, link, rec) ==
    LET q == QueryFlush(af, tables, s, sq)
        variants == {v \in ViewOf(tables, q.sess.rows, "variants") :
                        v.shopify_variant_id = rec.variant_id}
        items(v) == {l \in ViewOf(tables, q.sess.rows, "line_items") :
                        /\ l.order_id = link
                        /\ l.variant_id = v.id}
    IN  IF ~q.ok THEN {Raised(q)}
        ELSE IF variants = {}
        THEN {Done(Add(q.sess, "variants",
                       [id |-> NULL, product_id |-> NULL,
                        shopify_variant_id |-> rec.variant_id, title |-> "Default",
                        price |-> ToDecimal2(rec.price), sku |-> "SKU",
                        weight |-> 0, weight_unit |-> "kg"]),
                   q.seq, link)}
        ELSE UNION {
            IF items(v) # {}
            THEN {Done(Write(q.sess, "line_items",
                             [l EXCEPT !.quantity = rec.quantity,
                                       !.price = ToDecimal2(rec.price)]),
                       q.seq, link) : l \in items(v)}
            ELSE {Done(Add(q.sess, "line_items",
                           [id |-> NULL, order_id |-> link, variant_id |-> v.id,
                            quantity |-> rec.quantity,
                            price |-> ToDecimal2(rec.price)]),
                       q.seq, link)}
            : v \in variants}

\* main.py 223-245: one line-item record of the order linked as `link`
ReconcileLineItem(af, tables, s, sq, link, rec) ==
    LET q == QueryFlush(af, tables, s, sq)
        variants == {v \in ViewOf(tables, q.sess.rows, "variants") :
                        v.shopify_variant_id = rec.variant_id}
        items(v) == {l \in ViewOf(tables, q.sess.rows, "line_items") :
                        /\ l.order_id = link
                        /\ l.variant_id = v.id}
    IN  IF ~q.ok THEN {Raised(q)}
        ELSE IF variants = {} THEN {Done(q.sess, q.seq, link)}
        ELSE UNION {
            IF items(v) # {}
            THEN {Done(Write(q.sess, "line_items",
                             [l EXCEPT !.quantity = rec.quantity,
                                       !.price = ToDecimal2(rec.price)]),
                       q.seq, link) : l \in items(v)}
            ELSE {Done(Add(q.sess, "line_items",
                           [id |-> NULL, order_id |-> link, variant_id |-> v.id,
                            quantity |-> rec.quantity,
                            price |-> ToDecimal2(rec.price)]),
                       q.seq, link)}
            : v \in variants}

----------------------------------------------------------------------------
(* Tenants *)

\* mutant of UpsertTenant: a row is created whether or not the shop has one
UpsertTenantInsertOnly(st, shop_name, access_token) ==
    LET id == st.seq["tenants"] + 1
    IN  [tables |-> [st.tables EXCEPT !.tenants = @ \cup
                        {[id |-> id, shop_name |-> shop_name,
                          access_token |-> access_token]}],
         seq |-> [st.seq EXCEPT !["tenants"] = id]]

\* main.py 23-44: update_tenant, on committed tables
UpsertTenant(st, shop_name, access_token) ==
    LET found == {r \in st.tables.tenants : r.shop_name = shop_name}
        id == st.seq["tenants"] + 1
    IN  IF found # {}
        THEN [tables |-> [st.tables EXCEPT !.tenants =
                             {IF r \in found
                              THEN [r EXCEPT !.access_token = access_token]
                              ELSE r : r \in @}],
              seq |-> st.seq]
        ELSE [tables |-> [st.tables EXCEPT !.tenants = @ \cup
                             {[id |-> id, shop_name |-> shop_name,
                               access_token |-> access_token]}],
              seq |-> [st.seq EXCEPT !["tenants"] = id]]

\* the store once two shops have registered through update_tenant
Registered ==
    UpsertTenant(UpsertTenant([tables |-> EmptyTables, seq |-> ZeroSeq],
                              "shop-a", "token-a"),
                 "shop-b", "token-b")

\* tenant ids a caller may put in the path: the registered ones and one more
TenantIds == {r.id : r \in Registered.tables.tenants} \cup {Registered.seq["tenants"] + 1}

----------------------------------------------------------------------------
(* The ingestion call *)

NoData == [has_key |-> FALSE, records |-> <<>>]

NoCall ==
    [kind |-> "none", tenant_id |-> NULL, data |-> NoData, recs |-> <<>>,
     i |-> 0, j |-> 0, link |-> NULL, status |-> 0, cause |-> "none",
     count |-> 0, fetches |-> 0, steps |-> 0, created |-> {}]

NoPrev == [kind |-> "none", tenant_id |-> NULL, data |-> NoData, status |-> 0]

\* no second call
NoOther == [pc |-> "idle", call |-> NoCall, sess |-> EmptySession, pre |-> EmptyTables]

Init ==
    /\ autoflush \in SessionAutoflush
    /\ db = Registered.tables
    /\ seq = Registered.seq
    /\ sess = EmptySession
    /\ pc = "idle"
    /\ call = NoCall
    /\ ncalls = 0
    /\ pre = Registered.tables
    /\ prev = NoPrev
    /\ rep = FALSE
    /\ other = NoOther

\* get_db: the session ends with the request; what it did not commit is gone
CloseSession == sess' = EmptySession

\* mutant of TenantExists: a tenant lookup that accepts every id
TenantExistsAlways(tables, tenant_id) == TRUE

\* main.py 49-50: db.query(Tenant).filter(Tenant.id == tenant_id).first()
TenantExists(tables, tenant_id) == {r \in tables.tenants : r.id = tenant_id} # {}

\* main.py 47-51, 96-100, 170-174: the endpoint is called; tenant lookup
Start(kind, tenant_id, max) ==
    /\ pc \in {"idle", "done"}
    /\ ncalls < max
    /\ ncalls' = ncalls + 1
    /\ pre' = db
    /\ prev' = IF pc = "done"
               THEN [kind |-> call.kind, tenant_id |-> call.tenant_id,
                     data |-> call.data, status |-> call.status]
               ELSE NoPrev
    /\ rep' = FALSE
    /\ sess' = EmptySession
    /\ LET c == [NoCall EXCEPT !.kind = kind, !.tenant_id = tenant_id]
       IN  IF TenantExists(db, tenant_id)
           THEN /\ pc' = "fetch"
                /\ call' = c
           ELSE /\ pc' = "done"
                /\ call' = [c EXCEPT !.status = 404, !.cause = "tenant_not_found"]
    /\ UNCHANGED <<autoflush, db, seq, other>>

\* mutant of NextRecord: a call whose record list is empty returns at once,
\* without committing and without an answer
NextRecordStopsOnEmpty(c) ==
    IF c.i < Len(c.recs)
    THEN [pc |-> "record", i |-> c.i + 1, j |-> 0]
    ELSE IF c.recs = <<>>
    THEN [pc |-> "done", i |-> c.i, j |-> 0]
    ELSE [pc |-> "commit", i |-> c.i, j |-> 0]

\* where the loops stand after top-level record i (and its nested records)
NextRecord(c) ==
    IF c.i < Len(c.recs)
    THEN [pc |-> "record", i |-> c.i + 1, j |-> 0]
    ELSE [pc |-> "commit", i |-> c.i, j |-> 0]

\* mutant of FetchFailed: the failure is swallowed and the call goes on as with
\* an empty payload
FetchFailedSwallowed(c) ==
    [pc |-> "commit", call |-> [c EXCEPT !.cause = "upstream", !.fetches = @ + 1]]

\* mutant of FetchFailed: a failed fetch is attempted once more
FetchFailedRetried(c) ==
    IF c.fetches = 0
    THEN [pc |-> "fetch", call |-> [c EXCEPT !.fetches = @ + 1]]
    ELSE [pc |-> "done",
          call |-> [c EXCEPT !.status = 500, !.cause = "upstream", !.fetches = @ + 1]]

\* main.py 56-57, 105-106, 179-180: except Exception -> HTTPException(500)
FetchFailed(c) ==
    [pc |-> "done",
     call |-> [c EXCEPT !.status = 500, !.cause = "upstream", !.fetches = @ + 1]]

\* shopify.py 21-27: requests.get, raise_for_status or response.json() raises
FetchFails ==
    /\ pc = "fetch"
    /\ \E f \in FetchFailures :
          /\ pc' = FetchFailed(call).pc
          /\ call' = FetchFailed(call).call
    /\ CloseSession
    /\ prev' = NoPrev
    /\ UNCHANGED <<autoflush, db, seq, ncalls, pre, rep, other>>

\* shopify.py 21-24 and main.py 55-59: the fetch returns a payload
Fetch(P) ==
    /\ pc = "fetch"
    /\ \E data \in P[call.kind] :
          LET c == [call EXCEPT !.data = data, !.recs = GetRecords(data),
                                !.fetches = @ + 1]
              n == NextRecord(c)
          IN  /\ call' = [c EXCEPT !.i = n.i, !.j = n.j]
              /\ pc' = n.pc
              /\ rep' = /\ prev.status = 200
                        /\ prev.kind = call.kind
                        /\ prev.tenant_id = call.tenant_id
                        /\ prev.data = data
    /\ prev' = NoPrev
    /\ UNCHANGED <<autoflush, db, seq, sess, ncalls, pre, other>>

\* rows of table t that the other call's transaction inserted and has not
\* committed
Uncommitted(t) == {r \in other.sess.rows[t] : \A c \in db[t] : c.id # r.id}

\* the rows this step inserts (ids past the sequence) meet a unique key that
\* the other transaction holds uncommitted: the INSERT waits for that
\* transaction to end
Waits(rows) ==
    \E t \in Tables : \E r \in rows[t] :
        r.id > seq[t] /\ Violates(t, r, Uncommitted(t))

\* the record of this step was staged as a new row (not found by the lookup)
Staged(out) == Len(out.sess.pending) > Len(sess.pending) \/ out.seq # seq

\* an IntegrityError raised outside the try around db.commit() is handled by
\* nobody: the framework answers 500
Unhandled(c) == [c EXCEPT !.status = 500, !.cause = "integrity", !.steps = @ + 1]

\* the step after an outcome of a top-level record: into its nested records,
\* or on to the next record
AfterRecord(out, nested) ==
    IF out.ok
    THEN /\ sess' = out.sess
         /\ IF nested # <<>>
            THEN /\ pc' = "nested"
                 /\ call' = [call EXCEPT !.j = 1, !.link = out.link, !.steps = @ + 1,
                                         !.created = IF Staged(out)
                                                     THEN @ \cup {call.i} ELSE @]
            ELSE LET n == NextRecord(call)
                 IN  /\ pc' = n.pc
                     /\ call' = [call EXCEPT !.i = n.i, !.j = n.j,
                                             !.link = out.link, !.steps = @ + 1,
                                             !.created = IF Staged(out)
                                                         THEN @ \cup {call.i} ELSE @]
         /\ UNCHANGED db
    ELSE /\ pc' = "done"
         /\ call' = Unhandled(call)
         /\ CloseSession
         /\ UNCHANGED db

\* the step after an outcome of nested record j
AfterNested(out, nested) ==
    IF out.ok
    THEN /\ sess' = out.sess
         /\ IF call.j < Len(nested)
            THEN /\ pc' = "nested"
                 /\ call' = [call EXCEPT !.j = @ + 1, !.steps = @ + 1]
            ELSE LET n == NextRecord(call)
                 IN  /\ pc' = n.pc
                     /\ call' = [call EXCEPT !.i = n.i, !.j = n.j, !.steps = @ + 1]
         /\ UNCHANGED db
    ELSE /\ pc' = "done"
         /\ call' = Unhandled(call)
         /\ CloseSession
         /\ UNCHANGED db

\* main.py 60-85
CustomerStep ==
    /\ pc = "record" /\ call.kind = "customers"
    /\ \E out \in ReconcileCustomer(autoflush, db, sess, seq, call.tenant_id,
                                    call.recs[call.i]) :
          /\ ~Waits(out.sess.rows)
          /\ seq' = out.seq
          /\ AfterRecord(out, <<>>)
    /\ UNCHANGED <<autoflush, ncalls, pre, prev, rep, other>>

\* main.py 109-133
ProductStep ==
    /\ pc = "record" /\ call.kind = "products"
    /\ \E out \in ReconcileProduct(autoflush, db, sess, seq, call.tenant_id,
                                   call.recs[call.i]) :
          /\ ~Waits(out.sess.rows)
          /\ seq' = out.seq
          /\ AfterRecord(out, call.recs[call.i].variants)
    /\ UNCHANGED <<autoflush, ncalls, pre, prev, rep, other>>

\* main.py 137-159
VariantStep ==
    /\ pc = "nested" /\ call.kind = "products"
    /\ \E out \in ReconcileVariant(autoflush, db, sess, seq, call.link,
                                   call.recs[call.i].variants[call.j]) :
          /\ ~Waits(out.sess.rows)
          /\ seq' = out.seq
          /\ AfterNested(out, call.recs[call.i].variants)
    /\ UNCHANGED <<autoflush, ncalls, pre, prev, rep, other>>

\* main.py 183-219
OrderStep ==
    /\ pc = "record" /\ call.kind = "orders"
    /\ \E out \in ReconcileOrder(autoflush, db, sess, seq, call.tenant_id,
                                 call.recs[call.i]) :
          /\ ~Waits(out.sess.rows)
          /\ seq' = out.seq
          /\ AfterRecord(out, call.recs[call.i].line_items)
    /\ UNCHANGED <<autoflush, ncalls, pre, prev, rep, other>>

\* main.py 223-245
LineItemStep ==
    /\ pc = "nested" /\ call.kind = "orders"
    /\ \E out \in ReconcileLineItem(autoflush, db, sess, seq, call.link,
                                    call.recs[call.i].line_items[call.j]) :
          /\ ~Waits(out.sess.rows)
          /\ seq' = out.seq
          /\ AfterNested(out, call.recs[call.i].line_items)
    /\ UNCHANGED <<autoflush, ncalls, pre, prev, rep, other>>

\* mutant of Committed: a table the transaction wrote to is replaced by the
\* transaction's rows (a refresh instead of an upsert)
CommittedReplacing(tables, rows) ==
    [t \in Tables |-> IF rows[t] = {} THEN tables[t] ELSE rows[t]]

\* the tables once the transaction's rows are committed
Committed(tables, rows) == [t \in Tables |-> ViewOf(tables, rows, t)]

\* mutant of Rollback: a rollback that keeps what the transaction had flushed
\* before the error
RollbackKeepsFlushed(tables, rows) == Committed(tables, rows)

\* db.rollback(): the committed tables, without the rows the transaction flushed
Rollback(tables, rows) == tables

\* mutant of Processed: every record reconciled is counted, nested ones too
ProcessedSteps(c) == c.steps

\* main.py 93, 167, 253: len(customers_data), len(products_data), len(orders_data)
Processed(c) == Len(c.recs)

\* main.py 87-93, 161-167, 247-253: commit, or rollback and 409
Commit ==
    /\ pc = "commit"
    /\ LET f == Flush(db, sess, seq)
       IN  /\ ~Waits(f.sess.rows)
           /\ seq' = f.seq
           /\ IF f.ok
              THEN /\ db' = Committed(db, f.sess.rows)
                   /\ call' = [call EXCEPT !.status = 200, !.count = Processed(call)]
              ELSE /\ db' = Rollback(db, f.sess.rows)
                   /\ call' = [call EXCEPT !.status = 409, !.cause = "integrity"]
    /\ pc' = "done"
    /\ CloseSession
    /\ UNCHANGED <<autoflush, ncalls, pre, prev, rep, other>>

Next ==
    \/ \E kind \in Kinds, tenant_id \in TenantIds : Start(kind, tenant_id, MaxCalls)
    \/ FetchFails
    \/ Fetch(Payloads)
    \/ CustomerStep
    \/ ProductStep
    \/ VariantStep
    \/ OrderStep
    \/ LineItemStep
    \/ Commit

Spec == Init /\ [][Next]_vars

----------------------------------------------------------------------------
(* Orders after products: three calls over one product and one order *)

\* ingestion calls in one behaviour of SpecOrders
MaxOrderCalls == 3

\* one product with at most one variant; one order without customer and with up
\* to MaxNested line items
OrderPayloads ==
    [products |-> {[has_key |-> TRUE, records |-> <<r>>] :
                      r \in {p \in ProductRecs :
                                /\ p.id = 1 /\ p.title = "Mug"
                                /\ Len(p.variants) <= 1}},
     orders   |-> {[has_key |-> TRUE, records |-> <<r>>] :
                      r \in {o \in OrderRecs :
                                o.id = 1 /\ o.customer = NULL}}]

NextOrders ==
    \/ \E kind \in {"products", "orders"}, tenant_id \in TenantIds :
          Start(kind, tenant_id, MaxOrderCalls)
    \/ FetchFails
    \/ Fetch(OrderPayloads)
    \/ ProductStep
    \/ VariantStep
    \/ OrderStep
    \/ LineItemStep
    \/ Commit

SpecOrders == Init /\ [][NextOrders]_vars

----------------------------------------------------------------------------
(* Upserts over two tenants: three calls over records without nested records *)

\* ingestion calls in one behaviour of SpecUpsert
MaxUpsertCalls == 3

\* one or two top-level records of the kind, without variants, line items or
\* embedded customer
UpsertPayloads ==
    [customers |-> {[has_key |-> TRUE, records |-> p] :
                       p \in SeqsUpTo(CustomerRecs, MaxRecs) \ {<<>>}},
     products  |-> {[has_key |-> TRUE, records |-> p] :
                       p \in SeqsUpTo({r \in ProductRecs : r.variants = <<>>},
                                      MaxRecs) \ {<<>>}},
     orders    |-> {[has_key |-> TRUE, records |-> p] :
                       p \in SeqsUpTo({r \in OrderRecs :
                                          /\ r.line_items = <<>>
                                          /\ r.customer = NULL},
                                      MaxRecs) \ {<<>>}}]

NextUpsert ==
    \/ \E kind \in Kinds, tenant_id \in TenantIds :
          Start(kind, tenant_id, MaxUpsertCalls)
    \/ FetchFails
    \/ Fetch(UpsertPayloads)
    \/ CustomerStep
    \/ ProductStep
    \/ OrderStep
    \/ Commit

SpecUpsert == Init /\ [][NextUpsert]_vars

----------------------------------------------------------------------------
(* Claims *)

Finished == pc = "done"

\* C2: all-or-nothing per call.  A call that does not end in success (404,
\* upstream failure, uniqueness violation at a flush or at commit) leaves the
\* committed tables exactly as they were when the call started.
C2_AllOrNothing == (Finished /\ call.status # 200) => db = pre

\* C2 witness: a call ended on a uniqueness violation after at least one
\* earlier record of its batch had been staged, in a store that already held
\* rows of an earlier call.
C2_Witness ==
    /\ Finished
    /\ call.cause = "integrity"
    /\ call.steps >= 2
    /\ db # Registered.tables

\* C3: every uniqueness violation met during an ingestion call, wherever the
\* store detects it, is answered with 409.
C3_ConflictIs409 == (Finished /\ call.cause = "integrity") => call.status = 409

\* C9: a call for a tenant id without a Tenant row ends with 404, never calls
\* the adapter and leaves the store unchanged.
C9_TenantNotFound ==
    (Finished /\ \A r \in pre.tenants : r.id # call.tenant_id)
        => (call.status = 404 /\ call.fetches = 0 /\ call.steps = 0 /\ db = pre)

\* C9 witness: a 404 answered over a store that holds ingested rows.
C9_Witness ==
    /\ Finished
    /\ call.status = 404
    /\ db # Registered.tables

\* C10: when the fetch fails, the call ends with 500, no reconciliation step
\* runs and the store is unchanged.
C10_UpstreamFailure ==
    (Finished /\ call.cause = "upstream")
        => (call.status = 500 /\ call.steps = 0 /\ db = pre)

\* C10 witness: a fetch failed for an existing tenant whose store holds rows.
C10_Witness ==
    /\ Finished
    /\ call.cause = "upstream"
    /\ TenantExists(db, call.tenant_id)
    /\ db # Registered.tables

\* the call in flight got its payload and ran over it
Ingested(kind) ==
    /\ Finished
    /\ call.kind = kind
    /\ call.fetches = 1
    /\ call.cause # "upstream"

\* record k is the last record of the payload with its external id
LastOf(recs, k) == \A m \in (k + 1)..Len(recs) : recs[m].id # recs[k].id

\* the order record embeds no customer, or one without a Customer row of the tenant
Unresolved(tables, tenant_id, rec) ==
    \/ rec.customer = NULL
    \/ ~\E c \in tables.customers :
            /\ c.shopify_customer_id = rec.customer
            /\ c.tenant_id = tenant_id

OrdersOf(tables, tenant_id, ext_id) ==
    {o \in tables.orders : o.shopify_order_id = ext_id /\ o.tenant_id = tenant_id}

\* what C6 promises for order record k of the finished call
NullLinked(k) ==
    LET rec == call.recs[k]
    IN  /\ call.status = 200
        /\ db.customers = pre.customers
        /\ LastOf(call.recs, k) =>
              /\ OrdersOf(db, call.tenant_id, rec.id) # {}
              /\ \A o \in OrdersOf(db, call.tenant_id, rec.id) : o.customer_id = NULL

\* C6: null customer linkage.  An order record whose embedded customer has no
\* Customer row of the ingesting tenant (or that embeds no customer) is
\* ingested successfully, its Order row has a null customer reference, and no
\* Customer row is created or changed.
C6_NullCustomerLinkage ==
    Ingested("orders") =>
        \A k \in 1..Len(call.recs) :
            Unresolved(pre, call.tenant_id, call.recs[k]) => NullLinked(k)

\* some order record of the payload carries an external order id that an Order
\* row of another tenant holds
OrderIdTaken(tables, tenant_id, recs) ==
    \E k \in 1..Len(recs) : \E o \in tables.orders :
        o.shopify_order_id = recs[k].id /\ o.tenant_id # tenant_id

\* C6, apart from the collision of order ids across tenants: holds
C6_NullLinkageUnlessIdTaken ==
    (Ingested("orders") /\ ~OrderIdTaken(pre, call.tenant_id, call.recs)) =>
        \A k \in 1..Len(call.recs) :
            Unresolved(pre, call.tenant_id, call.recs[k]) => NullLinked(k)

\* C1: idempotence.  A successful ingestion run again at once, for the same
\* kind and tenant and with the identical payload, creates no row and changes
\* no value: the committed tables after the second run are those after the first.
C1_Idempotent == (Finished /\ rep) => (call.status = 200 /\ db = pre)

\* C4: at most one line-item row for each (internal order id, internal variant
\* id) pair, in every committed state.
C4_LineItemUnique ==
    \A l1, l2 \in db.line_items :
        (l1.order_id = l2.order_id /\ l1.variant_id = l2.variant_id) => l1 = l2

VariantsOf(tables, ext_id) == {v \in tables.variants : v.shopify_variant_id = ext_id}

ItemsOf(tables, order_id) == {l \in tables.line_items : l.order_id = order_id}

\* the positions of record rec's line items that name the external variant id
Naming(rec, ext_id) ==
    {n \in 1..Len(rec.line_items) : rec.line_items[n].variant_id = ext_id}

\* C5, first half, for order record k: none of its line items names a variant
\* of the store, and the call succeeds, upserts the order and leaves it with no
\* line item
UnresolvedOrderIngested(k) ==
    LET rec == call.recs[k]
    IN  (/\ rec.line_items # <<>>
         /\ \A n \in 1..Len(rec.line_items) :
                VariantsOf(pre, rec.line_items[n].variant_id) = {}
         /\ \A o \in OrdersOf(pre, call.tenant_id, rec.id) : ItemsOf(pre, o.id) = {})
        => /\ call.status = 200
           /\ OrdersOf(db, call.tenant_id, rec.id) # {}
           /\ \A o \in OrdersOf(db, call.tenant_id, rec.id) : ItemsOf(db, o.id) = {}

\* C5, second half, for line item n of order record k: the order is in the
\* store without line items, the variant is in the store by now, and the call
\* leaves exactly one line item for the pair, with the payload's values
ResolvedOnReingestion(k, n) ==
    LET rec  == call.recs[k]
        item == rec.line_items[n]
    IN  (/\ Naming(rec, item.variant_id) = {n}
         /\ VariantsOf(pre, item.variant_id) # {}
         /\ OrdersOf(pre, call.tenant_id, rec.id) # {}
         /\ \A o \in OrdersOf(pre, call.tenant_id, rec.id) : ItemsOf(pre, o.id) = {})
        => /\ call.status = 200
           /\ \A o \in OrdersOf(db, call.tenant_id, rec.id) :
              \A v \in VariantsOf(db, item.variant_id) :
                 LET rows == {l \in ItemsOf(db, o.id) : l.variant_id = v.id}
                 IN  /\ Cardinality(rows) = 1
                     /\ \A l \in rows : /\ l.quantity = item.quantity
                                        /\ l.price = ToDecimal2(item.price)

\* C5: referential resolution order.  An order whose line item names a variant
\* that is not in the store is ingested successfully, its Order row is
\* upserted and it is left with no line item; once a product ingestion has
\* created the variant, ingesting the same order again gives exactly one line
\* item for the pair, with the payload's quantity and price.
C5_ReferentialResolution ==
    Ingested("orders") =>
        \A k \in 1..Len(call.recs) :
            /\ UnresolvedOrderIngested(k)
            /\ \A n \in 1..Len(call.recs[k].line_items) : ResolvedOnReingestion(k, n)

\* C5, apart from the collision of order ids across tenants: holds
C5_ResolutionUnlessIdTaken ==
    (Ingested("orders") /\ ~OrderIdTaken(pre, call.tenant_id, call.recs)) =>
        \A k \in 1..Len(call.recs) :
            /\ UnresolvedOrderIngested(k)
            /\ \A n \in 1..Len(call.recs[k].line_items) : ResolvedOnReingestion(k, n)

\* C8, for line item n of order record k: the store holds exactly one line
\* item for the pair, and the call leaves that same row as the only one, with
\* the payload's quantity
UpdatedInPlace(k, n) ==
    LET rec  == call.recs[k]
        item == rec.line_items[n]
    IN  \A o \in OrdersOf(pre, call.tenant_id, rec.id) :
        \A v \in VariantsOf(pre, item.variant_id) :
           LET before == {l \in ItemsOf(pre, o.id) : l.variant_id = v.id}
               after  == {l \in ItemsOf(db, o.id) : l.variant_id = v.id}
           IN  (/\ Naming(rec, item.variant_id) = {n}
                /\ LastOf(call.recs, k)
                /\ Cardinality(before) = 1)
               => /\ call.status = 200
                  /\ {l.id : l \in after} = {l.id : l \in before}
                  /\ \A l \in after : l.quantity = item.quantity

\* every order record of the payload has an Order row of the tenant already
AllOrdersKnown(tables, tenant_id, recs) ==
    \A k \in 1..Len(recs) : OrdersOf(tables, tenant_id, recs[k].id) # {}

\* C8: line-item update in place.  Once an order ingestion has created the line
\* item of an (order, variant) pair, ingesting the same order again with
\* another quantity for that line item leaves exactly one line-item row for the
\* pair, the same row, holding the new quantity.
C8_LineItemUpdatedInPlace ==
    (Ingested("orders") /\ AllOrdersKnown(pre, call.tenant_id, call.recs)) =>
        \A k \in 1..Len(call.recs) :
            \A n \in 1..Len(call.recs[k].line_items) : UpdatedInPlace(k, n)

\* C8 witness: the second ingestion changed the quantity of the one line item
\* of the pair
C8_Witness ==
    /\ Ingested("orders")
    /\ call.status = 200
    /\ \E l \in pre.line_items : \E m \in db.line_items :
          /\ m.id = l.id
          /\ m.quantity # l.quantity
          /\ Cardinality({x \in pre.line_items :
                 x.order_id = l.order_id /\ x.variant_id = l.variant_id}) = 1
    /\ Len(call.recs) = 1 /\ Len(call.recs[1].line_items) = 1

\* the external id of a row of the table of a resource kind
ExternalId(kind, row) ==
    CASE kind = "customers" -> row.shopify_customer_id
      [] kind = "products"  -> row.shopify_product_id
      [] kind = "orders"    -> row.shopify_order_id

\* the tenant's rows of the kind with the external id
RowsOf(tables, kind, tenant_id, ext_id) ==
    {r \in tables[kind] : r.tenant_id = tenant_id /\ ExternalId(kind, r) = ext_id}

\* the payload's record a has a row of the tenant and its record b has none
OneExistingOneNew(a, b) ==
    /\ Len(call.recs) = 2
    /\ {a, b} = {1, 2}
    /\ RowsOf(pre, call.kind, call.tenant_id, call.recs[a].id) # {}
    /\ RowsOf(pre, call.kind, call.tenant_id, call.recs[b].id) = {}

\* one row created for record b, the row of record a kept under its internal
\* id, every other row untouched
OneCreatedOneUpdated(a, b) ==
    LET kind == call.kind
        old  == RowsOf(pre, kind, call.tenant_id, call.recs[a].id)
        new  == RowsOf(db, kind, call.tenant_id, call.recs[b].id)
    IN  /\ call.status = 200
        /\ Cardinality(db[kind]) = Cardinality(pre[kind]) + 1
        /\ Cardinality(new) = 1
        /\ {r.id : r \in db[kind]} = {r.id : r \in pre[kind] \cup new}
        /\ pre[kind] \ old \subseteq db[kind]

\* C7: upsert correctness.  For each resource kind, a payload with one record
\* whose external id is new to the tenant and one record whose external id has
\* a row of the tenant creates exactly one row and updates exactly one existing
\* row in place (same internal id): the table grows by exactly one row.
C7_UpsertCorrectness ==
    \A kind \in Kinds :
        Ingested(kind) =>
            \A a, b \in 1..2 : OneExistingOneNew(a, b) => OneCreatedOneUpdated(a, b)

\* record k's external id is carried by a row of the kind, of whatever tenant
IdTaken(tables, kind, rec) == \E r \in tables[kind] : ExternalId(kind, r) = rec.id

\* C7, apart from external ids held by another tenant: holds
C7_UpsertUnlessIdTaken ==
    \A kind \in Kinds :
        Ingested(kind) =>
            \A a, b \in 1..2 :
                (OneExistingOneNew(a, b) /\ ~IdTaken(pre, kind, call.recs[b]))
                    => OneCreatedOneUpdated(a, b)

----------------------------------------------------------------------------
(* Tenant registration: update_tenant calls *)

\* update_tenant calls in one behaviour of SpecTenants
MaxTenantCalls == 3

ShopNames == {"shop-a", "shop-b", "shop-c", "shop-d"}

AccessTokens == {"token-a", "token-b", "token-n"}

\* the finished update_tenant call, with its query parameters
TenantCall(shop_name, access_token) ==
    [shop_name |-> shop_name, access_token |-> access_token]
        @@ [NoCall EXCEPT !.kind = "tenant", !.status = 200]

\* main.py 22-44: POST /update_tenant
UpdateTenant(shop_name, access_token, max) ==
    /\ pc \in {"idle", "done"}
    /\ ncalls < max
    /\ ncalls' = ncalls + 1
    /\ pre' = db
    /\ LET st == UpsertTenant([tables |-> db, seq |-> seq], shop_name, access_token)
       IN  /\ db' = st.tables
           /\ seq' = st.seq
    /\ call' = TenantCall(shop_name, access_token)
    /\ pc' = "done"
    /\ CloseSession
    /\ prev' = NoPrev
    /\ rep' = FALSE
    /\ UNCHANGED <<autoflush, other>>

NextTenants ==
    \E shop_name \in ShopNames, access_token \in AccessTokens :
        UpdateTenant(shop_name, access_token, MaxTenantCalls)

SpecTenants == Init /\ [][NextTenants]_vars

----------------------------------------------------------------------------
(* Every endpoint: ingestion calls and update_tenant calls, one at a time *)

NextAll ==
    \/ Next
    \/ \E shop_name \in ShopNames, access_token \in AccessTokens :
          UpdateTenant(shop_name, access_token, MaxCalls)

SpecAll == Init /\ [][NextAll]_vars

----------------------------------------------------------------------------
(* Two calls at once: requests are served concurrently, each with its own   *)
(* session; every step of a call is one statement against the store, which  *)
(* shows a query the committed rows and the transaction's own rows           *)

\* the running call is set aside and the other call runs on
Switch ==
    /\ <<pc, other.pc>> # <<"idle", "idle">>
    /\ other' = [pc |-> pc, call |-> call, sess |-> sess, pre |-> pre]
    /\ pc' = other.pc
    /\ call' = other.call
    /\ sess' = other.sess
    /\ pre' = other.pre
    /\ prev' = NoPrev
    /\ rep' = FALSE
    /\ UNCHANGED <<autoflush, db, seq, ncalls>>

\* ingestion calls in one behaviour of SpecRace
MaxRaceCalls == 2

NextRace ==
    \/ \E kind \in Kinds, tenant_id \in TenantIds :
          Start(kind, tenant_id, MaxRaceCalls)
    \/ FetchFails
    \/ Fetch(Payloads)
    \/ CustomerStep
    \/ ProductStep
    \/ VariantStep
    \/ OrderStep
    \/ LineItemStep
    \/ Commit
    \/ Switch

SpecRace == Init /\ [][NextRace]_vars

\* customer ingestions in one behaviour of SpecCustomerRace
MaxCustomerCalls == 3

NextCustomerRace ==
    \/ \E tenant_id \in TenantIds : Start("customers", tenant_id, MaxCustomerCalls)
    \/ FetchFails
    \/ Fetch(Payloads)
    \/ CustomerStep
    \/ Commit
    \/ Switch

SpecCustomerRace == Init /\ [][NextCustomerRace]_vars

\* product and order ingestions in one behaviour of SpecOrderRace
MaxOrderRaceCalls == 4

\* one product with at most one variant, of external id 1; one order without
\* customer and with at most one line item, for the variant of external id 1
OrderRacePayloads ==
    [products |-> {[has_key |-> TRUE, records |-> <<r>>] :
                      r \in {p \in ProductRecs :
                                /\ p.id = 1 /\ p.title = "Mug"
                                /\ Len(p.variants) <= 1
                                /\ \A k \in 1..Len(p.variants) :
                                      /\ p.variants[k].id = 1
                                      /\ p.variants[k].price = 19990}},
     orders   |-> {[has_key |-> TRUE, records |-> <<r>>] :
                      r \in {o \in OrderRecs :
                                /\ o.id = 1 /\ o.customer = NULL
                                /\ o.total_price = 19990
                                /\ Len(o.line_items) <= 1
                                /\ \A k \in 1..Len(o.line_items) :
                                      o.line_items[k].variant_id = 1}}]

NextOrderRace ==
    \/ \E kind \in {"products", "orders"}, tenant_id \in TenantIds :
          Start(kind, tenant_id, MaxOrderRaceCalls)
    \/ FetchFails
    \/ Fetch(OrderRacePayloads)
    \/ ProductStep
    \/ VariantStep
    \/ OrderStep
    \/ LineItemStep
    \/ Commit
    \/ Switch

SpecOrderRace == Init /\ [][NextOrderRace]_vars

\* ingestion calls in one behaviour of SpecLinks
MaxLinkCalls == 4

\* one customer, one product of external id 1 with at most one variant, one
\* order of external id 1 with or without an embedded customer and with at
\* most one line item
LinkPayloads ==
    [customers |-> {[has_key |-> TRUE, records |-> <<r>>] :
                       r \in {c \in CustomerRecs : c.first_name = "Ann"}},
     products  |-> {[has_key |-> TRUE, records |-> <<r>>] :
                       r \in {p \in ProductRecs :
                                 /\ p.id = 1 /\ p.title = "Mug"
                                 /\ Len(p.variants) <= 1
                                 /\ \A k \in 1..Len(p.variants) :
                                       /\ p.variants[k].id = 1
                                       /\ p.variants[k].price = 19990}},
     orders    |-> {[has_key |-> TRUE, records |-> <<r>>] :
                       r \in {o \in OrderRecs :
                                 /\ o.id = 1
                                 /\ o.total_price = 19990
                                 /\ Len(o.line_items) <= 1
                                 /\ \A k \in 1..Len(o.line_items) :
                                       /\ o.line_items[k].variant_id = 1
                                       /\ o.line_items[k].quantity = 1}}]

NextLinks ==
    \/ \E kind \in Kinds, tenant_id \in TenantIds : Start(kind, tenant_id, MaxLinkCalls)
    \/ FetchFails
    \/ Fetch(LinkPayloads)
    \/ CustomerStep
    \/ ProductStep
    \/ VariantStep
    \/ OrderStep
    \/ LineItemStep
    \/ Commit

SpecLinks == Init /\ [][NextLinks]_vars

\* product ingestions in one behaviour of SpecProducts
MaxProductCalls == 2

\* records in a payload of SpecProducts
MaxProductRecs == 2

\* up to MaxProductRecs products, each with at most one variant
ProductPayloads ==
    [products |->
        Mappings(ListsWithin({p \in ProductRecs :
                                 /\ Len(p.variants) <= 1
                                 /\ \A k \in 1..Len(p.variants) :
                                       p.variants[k].price = 19990},
                             MaxProductRecs, 2 * MaxProductRecs))]

NextProducts ==
    \/ \E tenant_id \in TenantIds : Start("products", tenant_id, MaxProductCalls)
    \/ FetchFails
    \/ Fetch(ProductPayloads)
    \/ ProductStep
    \/ VariantStep
    \/ Commit

SpecProducts == Init /\ [][NextProducts]_vars

----------------------------------------------------------------------------
(* Tenant scope *)

\* the tenant a row belongs to: its own tenant_id, or that of the product of a
\* variant, or that of the order of a line item
Owner(tables, t, r) ==
    CASE t = "variants" ->
            (CHOOSE p \in tables.products : p.id = r.product_id).tenant_id
      [] t = "line_items" ->
            (CHOOSE o \in tables.orders : o.id = r.order_id).tenant_id
      [] OTHER -> r.tenant_id

ScopedTables == Tables \ {"tenants"}

\* C11: tenant isolation.  An ingestion call for a tenant never creates,
\* modifies or re-links a row that belongs to another tenant: the rows of
\* other tenants are after the call what they were before it, and every row
\* the call created belongs to the calling tenant.
C11_TenantIsolation ==
    Finished =>
        \A t \in ScopedTables :
            /\ \A r \in pre[t] : Owner(pre, t, r) # call.tenant_id => r \in db[t]
            /\ \A r \in db[t] \ pre[t] : Owner(db, t, r) = call.tenant_id

----------------------------------------------------------------------------
(* Uniqueness of external ids *)

\* C12: global external-id uniqueness.  In every committed state, whatever
\* the sequence or interleaving of ingestion calls and whatever the tenants,
\* an external customer id has at most one Customer row, an external product
\* id at most one Product row and an external variant id at most one Variant
\* row.
C12_GlobalExternalIds ==
    /\ \A r1, r2 \in db.customers :
          r1.shopify_customer_id = r2.shopify_customer_id => r1 = r2
    /\ \A r1, r2 \in db.products :
          r1.shopify_product_id = r2.shopify_product_id => r1 = r2
    /\ \A r1, r2 \in db.variants :
          r1.shopify_variant_id = r2.shopify_variant_id => r1 = r2


\* C12 witness: two calls of different tenants ran at once, both staged a new
\* customer with the same external id, one committed, the other was refused
C12_Witness ==
    /\ Finished /\ other.pc = "done"
    /\ call.kind = "customers" /\ other.call.kind = "customers"
    /\ call.tenant_id # other.call.tenant_id
    /\ {call.status, other.call.status} = {200, 409}
    /\ \E i \in call.created, j \in other.call.created :
          /\ call.recs[i].id = other.call.recs[j].id
          /\ \E r \in db.customers : r.shopify_customer_id = call.recs[i].id


\* C13: order uniqueness is scoped by tenant.  An order ingestion for a tenant
\* succeeds and creates the tenant's own Order row even when another tenant
\* holds an Order row with the same external order id, and that row is left
\* unchanged.
C13_OrderScopedByTenant ==
    Ingested("orders") =>
        \A k \in 1..Len(call.recs) :
            (\E o \in pre.orders : /\ o.shopify_order_id = call.recs[k].id
                                   /\ o.tenant_id # call.tenant_id)
            => /\ call.status = 200
               /\ OrdersOf(db, call.tenant_id, call.recs[k].id) # {}
               /\ \A o \in pre.orders : o.tenant_id # call.tenant_id => o \in db.orders


----------------------------------------------------------------------------
(* Tenant upsert *)

TenantsOf(tables, shop_name) == {r \in tables.tenants : r.shop_name = shop_name}

\* C14: tenant upsert.  update_tenant creates a Tenant row when the shop name
\* has none and otherwise only overwrites the access token of the shop's row:
\* after every call there is exactly one row per shop name, the shop's row
\* keeps the internal id it was created with and holds the token supplied
\* last, and no Tenant row is removed or otherwise changed.
C14_TenantUpsert ==
    /\ \A r1, r2 \in db.tenants : r1.shop_name = r2.shop_name => r1 = r2
    /\ (Finished /\ call.kind = "tenant") =>
          LET old == TenantsOf(pre, call.shop_name)
              new == TenantsOf(db, call.shop_name)
          IN  /\ Cardinality(new) = 1
              /\ \A r \in new : r.access_token = call.access_token
              /\ old # {} => /\ {r.id : r \in new} = {r.id : r \in old}
                             /\ Cardinality(db.tenants) = Cardinality(pre.tenants)
              /\ old = {} => /\ \A r \in new : \A q \in pre.tenants : r.id # q.id
                             /\ Cardinality(db.tenants) = Cardinality(pre.tenants) + 1
              /\ pre.tenants \ old \subseteq db.tenants

\* C14 witness: a call replaced the token of a shop registered by an earlier
\* call of the behaviour
C14_Witness ==
    /\ Finished /\ call.kind = "tenant"
    /\ \E r \in pre.tenants : \E n \in db.tenants :
          /\ r.shop_name = call.shop_name
          /\ r.id > Registered.seq["tenants"]
          /\ n.id = r.id
          /\ n.access_token # r.access_token


----------------------------------------------------------------------------
(* Money *)

\* a payload value with two fractional digits
TwoDigits(m) == m % 10 = 0

\* the successful call left every variant price, order total and line-item
\* price of its payload that has two fractional digits stored as supplied
MoneyStored ==
    \A k \in 1..Len(call.recs) :
        LET rec == call.recs[k]
        IN  /\ call.kind = "products" =>
                 \A n \in 1..Len(rec.variants) :
                     (/\ TwoDigits(rec.variants[n].price)
                      /\ \A m \in (n + 1)..Len(rec.variants) :
                             rec.variants[m].id # rec.variants[n].id)
                     => \A v \in VariantsOf(db, rec.variants[n].id) :
                            FromDecimal2(v.price) = rec.variants[n].price
            /\ call.kind = "orders" =>
                 /\ (TwoDigits(rec.total_price) /\ LastOf(call.recs, k))
                    => \A o \in OrdersOf(db, call.tenant_id, rec.id) :
                           FromDecimal2(o.total_price) = rec.total_price
                 /\ \A n \in 1..Len(rec.line_items) :
                       (TwoDigits(rec.line_items[n].price) /\ LastOf(call.recs, k))
                       => \A o \in OrdersOf(db, call.tenant_id, rec.id) :
                          \A v \in VariantsOf(db, rec.line_items[n].variant_id) :
                          \A l \in ItemsOf(db, o.id) :
                              l.variant_id = v.id
                              => FromDecimal2(l.price) = rec.line_items[n].price

\* the call changed no stored money value
MoneyKept ==
    /\ \A r \in pre.variants : \E n \in db.variants : n.id = r.id /\ n.price = r.price
    /\ \A r \in pre.orders :
          \E n \in db.orders : n.id = r.id /\ n.total_price = r.total_price
    /\ \A r \in pre.line_items :
          \E n \in db.line_items : n.id = r.id /\ n.price = r.price

\* every money value of the payload has two fractional digits
AllTwoDigits ==
    \A k \in 1..Len(call.recs) :
        LET rec == call.recs[k]
        IN  /\ call.kind = "products" =>
                 \A n \in 1..Len(rec.variants) : TwoDigits(rec.variants[n].price)
            /\ call.kind = "orders" =>
                 /\ TwoDigits(rec.total_price)
                 /\ \A n \in 1..Len(rec.line_items) : TwoDigits(rec.line_items[n].price)

\* C15: money round-trip.  A variant price, order total or line-item price
\* supplied with two fractional digits is stored, and read back, as exactly
\* that value; ingesting the same payload again changes no stored money value.
C15_MoneyRoundTrip ==
    (Finished /\ call.status = 200 /\ call.kind \in {"products", "orders"}) =>
        /\ MoneyStored
        /\ (rep /\ AllTwoDigits) => MoneyKept

\* C15 witness: an order with a line item was ingested a second time, and its
\* total and the line item's price are stored as supplied
C15_Witness ==
    /\ Finished /\ call.status = 200 /\ call.kind = "orders" /\ rep
    /\ AllTwoDigits
    /\ \E o \in db.orders : \E l \in db.line_items :
          /\ l.order_id = o.id
          /\ FromDecimal2(o.total_price) = call.recs[1].total_price
          /\ FromDecimal2(l.price) = call.recs[1].line_items[1].price


----------------------------------------------------------------------------
(* Response *)

\* C16: processed count.  A successful call reports the number of top-level
\* records of the fetched payload, whether they were inserted or updated and
\* however many nested variants or line items were written or skipped.
C16_ProcessedCount ==
    (Finished /\ call.status = 200) =>
        call.count = IF call.data.has_key THEN Len(call.data.records) ELSE 0

\* C16 witness: one order record, updated, whose line item was skipped: the
\* count is 1
C16_Witness ==
    /\ Ingested("orders") /\ call.status = 200
    /\ call.count = 1
    /\ call.created = {}
    /\ Len(call.recs[1].line_items) = 1
    /\ db.line_items = {}


----------------------------------------------------------------------------
(* Lifetime of rows *)

\* C17: no deletion.  No ingestion call and no update_tenant call removes a
\* row: from one committed state to the next, every internal id of every
\* table is still there, also when the payload omits records, variants or
\* line items that were ingested before.
C17_NoDeletion ==
    [][\A t \in Tables : \A r \in db[t] : \E n \in db'[t] : n.id = r.id]_vars

\* C17 witness: a customer ingestion whose payload left out a customer of the
\* tenant ingested before; the row is still there
C17_Witness ==
    /\ Ingested("customers") /\ call.status = 200
    /\ call.recs # <<>>
    /\ \E r \in pre.customers :
          /\ r.tenant_id = call.tenant_id
          /\ \A k \in 1..Len(call.recs) : call.recs[k].id # r.shopify_customer_id
          /\ r \in db.customers


----------------------------------------------------------------------------
(* Variants *)

\* C18: variant linkage.  After a successful product ingestion every variant
\* record of the payload has a Variant row whose product reference is the
\* internal id of the Product row of the enclosing product record, whether
\* the Variant row was created by the call or existed before it.
C18_VariantLinkage ==
    (Ingested("products") /\ call.status = 200) =>
        \A k \in 1..Len(call.recs) :
        \A n \in 1..Len(call.recs[k].variants) :
            LET rows == VariantsOf(db, call.recs[k].variants[n].id)
            IN  /\ rows # {}
                /\ \A v \in rows :
                      \E p \in RowsOf(db, "products", call.tenant_id, call.recs[k].id) :
                          v.product_id = p.id


----------------------------------------------------------------------------
(* Races *)

\* the payload names every external id once
DistinctIds(recs) ==
    \A k, m \in 1..Len(recs) : recs[k].id = recs[m].id => k = m

\* both calls are over; they were customer ingestions of one tenant that both
\* staged a new row for the same external customer id
CustomerRace ==
    /\ Finished /\ other.pc = "done"
    /\ call.kind = "customers" /\ other.call.kind = "customers"
    /\ call.tenant_id = other.call.tenant_id
    /\ DistinctIds(call.recs) /\ DistinctIds(other.call.recs)
    /\ \E i \in call.created, j \in other.call.created :
          call.recs[i].id = other.call.recs[j].id

\* the records of call lose that it staged as new and that win's payload does
\* not name
OwnNew(lose, win) ==
    {j \in lose.created : \A k \in 1..Len(win.recs) : win.recs[k].id # lose.recs[j].id}

\* the tenant of call c has a customer row for external id x
HasCustomer(c, x) ==
    \E r \in db.customers : r.tenant_id = c.tenant_id /\ r.shopify_customer_id = x

\* call win committed its whole batch, call lose was refused with 409
WonBy(win, lose) ==
    /\ win.status = 200
    /\ lose.status = 409
    /\ \A k \in 1..Len(win.recs) : HasCustomer(win, win.recs[k].id)

\* the running call ends with 409 in this step
Refused ==
    pc # "done" /\ pc' = "done" /\ call'.status = 409

HeldElsewhere(c) ==
    \E k \in 1..Len(c.recs) : \E r \in db.customers :
        r.shopify_customer_id = c.recs[k].id /\ r.tenant_id # c.tenant_id

\* neither payload names an external id that another tenant holds
Free ==
    ~HeldElsewhere(call) /\ ~HeldElsewhere(other.call)

----------------------------------------------------------------------------
(* Line items under interleaving *)

\* C20: line-item uniqueness under interleaving.  Whatever the interleaving
\* of order ingestions of one tenant that name the same order with a line
\* item for the same resolvable variant, the committed store holds at most one
\* line-item row for an (order, variant) pair.
C20_LineItemUniqueInterleaved ==
    \A a, b \in db.line_items :
        a.order_id = b.order_id /\ a.variant_id = b.variant_id => a.id = b.id

----------------------------------------------------------------------------
(* References between the tables *)

\* C21: referential integrity.  In every committed state every variant's
\* product reference names an existing product, every line item's order and
\* variant references name an existing order and an existing variant, and
\* every order's customer reference is null or names an existing customer of
\* the order's tenant.
C21_ReferentialIntegrity ==
    /\ \A v \in db.variants : \E p \in db.products : p.id = v.product_id
    /\ \A l \in db.line_items :
          /\ \E o \in db.orders : o.id = l.order_id
          /\ \E v \in db.variants : v.id = l.variant_id
    /\ \A o \in db.orders :
          \/ o.customer_id = NULL
          \/ \E c \in db.customers : c.id = o.customer_id /\ c.tenant_id = o.tenant_id

\* C21 witness: a committed order that is linked to a customer and has a line
\* item for a variant, while another tenant has customers too
C21_Witness ==
    /\ Finished
    /\ \E o \in db.orders, l \in db.line_items, c \in db.customers :
          /\ o.customer_id # NULL /\ l.order_id = o.id
          /\ c.tenant_id # o.tenant_id

\* C22: line-item tenant scope.  In every committed state every line item's
\* order and the product that owns the line item's variant belong to the same
\* tenant.
C22_LineItemTenantScope ==
    \A l \in db.line_items :
        \A o \in db.orders, v \in db.variants, p \in db.products :
            o.id = l.order_id /\ v.id = l.variant_id /\ p.id = v.product_id
                => o.tenant_id = p.tenant_id


\* the ingesting tenant's rows for the order of record rec
OrderRows(tables, rec) ==
    {o \in tables.orders : o.shopify_order_id = rec.id /\ o.tenant_id = call.tenant_id}

\* the ingesting tenant's customers with the external id embedded in rec
EmbeddedCustomers(rec) ==
    {c \in db.customers :
        rec.customer # NULL /\ c.shopify_customer_id = rec.customer
                            /\ c.tenant_id = call.tenant_id}

\* C23: customer link on re-ingestion.  After a successful order ingestion
\* every order named in the payload has a row whose customer reference is the
\* internal id of the tenant's customer with the embedded external id when
\* there is one, and null otherwise, whatever the reference was before.
C23_CustomerLink ==
    Finished /\ call.kind = "orders" /\ call.status = 200 =>
        \A k \in 1..Len(call.recs) :
            /\ OrderRows(db, call.recs[k]) # {}
            /\ \A o \in OrderRows(db, call.recs[k]) :
                  IF EmbeddedCustomers(call.recs[k]) = {}
                  THEN o.customer_id = NULL
                  ELSE \E c \in EmbeddedCustomers(call.recs[k]) : o.customer_id = c.id

\* C23 witness: a successful re-ingestion that replaced a resolved link by null
C23_Witness ==
    /\ Finished /\ call.kind = "orders" /\ call.status = 200
    /\ \E k \in 1..Len(call.recs) :
          /\ \E o \in OrderRows(pre, call.recs[k]) : o.customer_id # NULL
          /\ \E o \in OrderRows(db, call.recs[k]) : o.customer_id = NULL

----------------------------------------------------------------------------
(* Order of the phases of a call *)

\* this step writes to the store or stages a write in the session
Writes ==
    \/ db' # db
    \/ seq' # seq
    \/ sess' # sess /\ sess' # EmptySession

\* C24: phase ordering.  Within every ingestion call the tenant lookup
\* precedes the fetch (the fetch is reached only with the tenant found), the
\* fetch completes before the first store write, every write of the reconcile
\* loop precedes the commit (after the commit point nothing but the commit
\* runs), and a successful call commits once, as its last store action: the
\* committed tables change only in the step that ends the call.
C24_PhaseOrdering ==
    [][/\ pc' = "fetch" =>
             /\ pc \in {"idle", "done"}
             /\ \E r \in db.tenants : r.id = call'.tenant_id
             /\ call'.fetches = 0
       /\ pc = "fetch" => ~Writes /\ pc' \in {"record", "commit", "done"}
       /\ Writes => call.fetches = 1 /\ pc \in {"record", "nested", "commit"}
       /\ pc \in {"record", "nested"} => db' = db /\ call'.status # 200
       /\ pc = "commit" => pc' = "done"
       /\ db' # db => pc = "commit" /\ call'.status = 200
       /\ pc = "done" => ~Writes /\ pc' \in {"fetch", "done"} /\ ncalls' = ncalls + 1
      ]_vars

\* C24 witness: a call that fetched, wrote in its reconcile loop and committed
C24_Witness ==
    /\ Finished /\ call.status = 200
    /\ call.fetches = 1 /\ call.steps >= 2
    /\ db # pre


\* C25: single fetch attempt.  Every ingestion call issues at most one request
\* to the external source, through at most one invocation of the adapter; a
\* call whose fetch failed has ended with that one attempt.
C25_SingleFetch ==
    /\ call.fetches <= 1
    /\ call.cause = "upstream" => pc = "done" /\ call.fetches = 1
    /\ pc \in {"record", "nested", "commit"} => call.fetches = 1

\* C25 witness: a call that has ended on a failed fetch, after a call that
\* fetched and committed
C25_Witness ==
    /\ Finished
    /\ call.cause = "upstream" /\ call.fetches = 1
    /\ ncalls = 2 /\ db # Registered.tables

----------------------------------------------------------------------------
(* Skipped line items *)

\* no variant has the external id that line-item record li names
Unresolvable(li) ==
    \A v \in db.variants : v.shopify_variant_id # li.variant_id

\* the call stands at a line-item record whose variant cannot be resolved
AtUnresolvable ==
    /\ pc = "nested" /\ call.kind = "orders"
    /\ Unresolvable(call.recs[call.i].line_items[call.j])

\* line-item record j of order record rec has a row of the tenant's order with
\* the record's quantity and price
HasItemRow(rec, j) ==
    \E o \in db.orders, v \in db.variants, l \in db.line_items :
        /\ o.shopify_order_id = rec.id /\ o.tenant_id = call.tenant_id
        /\ v.shopify_variant_id = rec.line_items[j].variant_id
        /\ l.order_id = o.id /\ l.variant_id = v.id
        /\ l.quantity = rec.line_items[j].quantity
        /\ l.price = ToDecimal2(rec.line_items[j].price)

\* line-item record j is the last record of rec for its variant
LastForVariant(rec, j) ==
    \A m \in (j + 1)..Len(rec.line_items) :
        rec.line_items[m].variant_id # rec.line_items[j].variant_id

\* a successful order ingestion has ended: every order of the payload has a
\* row, and so has every line-item record whose variant resolves
OrdersAndItemsStored ==
    Finished /\ call.kind = "orders" /\ call.status = 200 =>
        \A k \in 1..Len(call.recs) :
            /\ \E o \in db.orders : /\ o.shopify_order_id = call.recs[k].id
                                    /\ o.tenant_id = call.tenant_id
            /\ \A j \in 1..Len(call.recs[k].line_items) :
                  /\ ~Unresolvable(call.recs[k].line_items[j])
                  /\ LastForVariant(call.recs[k], j)
                  => HasItemRow(call.recs[k], j)

\* C26: skipping is local.  In an order ingestion the step at a line-item
\* record whose variant cannot be resolved changes neither the session nor
\* the store and does not end the call; no step at or after a line-item
\* record makes the call fail; and when the call has ended, the order of
\* every record has its row and every line-item record whose variant does
\* resolve has a row with that record's quantity and price.
C26_SkipIsLocal ==
    [][/\ AtUnresolvable =>
             /\ sess' = sess /\ seq' = seq /\ db' = db
             /\ pc' \in {"nested", "record", "commit"}
       /\ call.kind = "orders" /\ pc \in {"nested", "commit"} =>
             call'.status \in {0, 200}
       /\ OrdersAndItemsStored'
      ]_vars

\* C26 witness: a successful order ingestion whose payload had a line item
\* that could not be resolved and one that could
C26_Witness ==
    /\ Finished /\ call.kind = "orders" /\ call.status = 200
    /\ \E k \in 1..Len(call.recs) :
          \E j, m \in 1..Len(call.recs[k].line_items) :
              /\ Unresolvable(call.recs[k].line_items[j])
              /\ ~Unresolvable(call.recs[k].line_items[m])
              /\ j < m
              /\ HasItemRow(call.recs[k], m)

----------------------------------------------------------------------------
(* What a call may change *)

\* the tables an ingestion of the kind writes to
WriteSet(kind) ==
    CASE kind = "customers" -> {"customers"}
      [] kind = "products"  -> {"products", "variants"}
      [] kind = "orders"    -> {"orders", "line_items"}
      [] OTHER              -> {}

\* C27: per-kind write set.  A step of a customer ingestion changes no table
\* but customers, a step of a product ingestion none but products and
\* variants, a step of an order ingestion none but orders and line items; no
\* ingestion changes the tenants table.
C27_WriteSet ==
    [][\A t \in Tables : db'[t] # db[t] => t \in WriteSet(call.kind)]_vars

\* C27 witness: calls of two kinds have committed rows, and the tables outside
\* the write set of the last one are as they were when it began
C27_Witness ==
    /\ Finished /\ call.status = 200
    /\ \E t \in WriteSet(call.kind) : db[t] # pre[t]
    /\ \E t \in Tables \ (WriteSet(call.kind) \cup {"tenants"}) : pre[t] # {}
    /\ \A t \in Tables \ WriteSet(call.kind) : db[t] = pre[t]


\* the identity of row r of table t: internal id, external id, owner reference
Identity(t, r) ==
    CASE t = "customers"  -> <<r.id, r.shopify_customer_id, r.tenant_id>>
      [] t = "products"   -> <<r.id, r.shopify_product_id, r.tenant_id>>
      [] t = "orders"     -> <<r.id, r.shopify_order_id, r.tenant_id>>
      [] t = "variants"   -> <<r.id, r.shopify_variant_id, r.product_id>>
      [] t = "line_items" -> <<r.id, r.order_id, r.variant_id>>
      [] OTHER            -> <<r.id>>

\* C28: identity fields are frozen on update.  A row that a step changes keeps
\* its internal id, its external id and its owner reference (tenant for
\* customer, product and order; product for variant; order and variant for
\* line item); only its other fields change.
C28_IdentityFrozen ==
    [][\A t \in Tables : \A r \in db[t], n \in db'[t] :
          n.id = r.id => Identity(t, n) = Identity(t, r)]_vars

\* C28 witness: a product ingestion has updated a variant that belongs to
\* another product than the one of the record that named it
C28_Witness ==
    /\ Finished /\ call.kind = "products" /\ call.status = 200
    /\ \E r \in pre.variants, n \in db.variants, p \in db.products :
          /\ n.id = r.id /\ n # r
          /\ p.id = r.product_id /\ p.tenant_id # call.tenant_id

----------------------------------------------------------------------------
(* One product twice in a payload *)

\* records k < m of the payload name the same product, which no row of the
\* store held when the call began
DuplicateNew(k, m) ==
    /\ k < m /\ m <= Len(call.recs)
    /\ call.recs[k].id = call.recs[m].id
    /\ \A r \in pre.products : r.shopify_product_id # call.recs[k].id

\* the product ingestion in flight got such a payload and has ended
DuplicateProductIngested ==
    /\ Finished /\ call.kind = "products" /\ call.fetches = 1
    /\ call.cause # "upstream"
    /\ \E k, m \in 1..Len(call.recs) : DuplicateNew(k, m)

\* the call succeeded and each product named twice has exactly one row, with
\* the fields of the last record that names it
OneRowLaterValues ==
    /\ call.status = 200
    /\ \A k, m \in 1..Len(call.recs) :
          DuplicateNew(k, m) /\ (\A n \in (m + 1)..Len(call.recs) :
                                    call.recs[n].id # call.recs[m].id)
          => /\ Cardinality({r \in db.products :
                                r.shopify_product_id = call.recs[m].id}) = 1
             /\ \A r \in db.products :
                   r.shopify_product_id = call.recs[m].id =>
                      /\ r.tenant_id = call.tenant_id
                      /\ r.title = call.recs[m].title
                      /\ r.vendor = call.recs[m].vendor
                      /\ r.product_type = call.recs[m].product_type

\* C29: duplicate product in one payload.  A product payload with two records
\* of the same external product id, new to the store, results in a
\* successful call and exactly one product row for that id, holding the field
\* values of the later record.
C29_DuplicateProduct ==
    DuplicateProductIngested => OneRowLaterValues

\* two records of the payload name the same variant and no row of the store
\* held that variant when the call began
SharedNewVariant ==
    \E k, m \in 1..Len(call.recs) :
        \E a \in 1..Len(call.recs[k].variants), b \in 1..Len(call.recs[m].variants) :
            /\ <<k, a>> # <<m, b>>
            /\ call.recs[k].variants[a].id = call.recs[m].variants[b].id
            /\ \A v \in pre.variants :
                  v.shopify_variant_id # call.recs[k].variants[a].id

\* a record of the payload names a product that a row of another tenant held
\* when the call began
ProductHeldElsewhere ==
    \E k \in 1..Len(call.recs) : \E r \in pre.products :
        r.shopify_product_id = call.recs[k].id /\ r.tenant_id # call.tenant_id

\* the duplicate is handled as C29 says when the records of the payload share
\* no new variant and name no product of another tenant
C29_DuplicateProductUnlessShared ==
    DuplicateProductIngested /\ ~SharedNewVariant /\ ~ProductHeldElsewhere
        => OneRowLaterValues

----------------------------------------------------------------------------
(* Empty payloads *)

\* the call in flight fetched a payload without records for its kind: the key
\* is missing, or its list is empty
EmptyFetched ==
    /\ call.fetches = 1 /\ call.cause # "upstream"
    /\ ~call.data.has_key \/ call.data.records = <<>>

\* C30: empty payload.  When the fetched payload has an empty record list for
\* the resource kind, or lacks the key, the call succeeds, reports a count of
\* 0 and leaves every table unchanged.
C30_EmptyPayload ==
    Finished /\ EmptyFetched =>
        /\ call.status = 200
        /\ call.count = 0
        /\ db = pre

\* C30 witness: a call on a store that holds rows fetched a payload without the
\* key and has ended
C30_Witness ==
    /\ Finished /\ EmptyFetched
    /\ ~call.data.has_key
    /\ call.status = 200
    /\ db # Registered.tables

====
